---- MODULE Spec2Model ----
(***************************************************************************)
(* Model of the in-memory bank of src/src/impl.ts: BankImpl (the account   *)
(* registry and the running total), AccountImpl (name and balance) and     *)
(* ManagerImpl (the read-only view of the total).                          *)
(*                                                                         *)
(* Strings are sequences of one-character strings, so that String.trim()   *)
(* is computed and not assumed.  Amounts are integers in the range where   *)
(* the arithmetic of the number type is exact.  An account handle is       *)
(* identified by the key under which BankImpl.accounts holds the account:  *)
(* accounts are never removed or replaced, so the key names one object.    *)
(***************************************************************************)
EXTENDS Integers, Sequences, FiniteSets, TLC

VARIABLES
    accounts,      \* BankImpl.accounts: key -> [name, balance] of the AccountImpl
    totalBalance,  \* BankImpl.totalBalance
    last,          \* the last call: operation, receiver, arguments, error thrown, value returned
    pre            \* accounts and totalBalance as they were when the last call started

vars == <<accounts, totalBalance, last, pre>>

----------------------------------------------------------------------------
(* Bounds of the model *)

MaxAmount == 3     \* largest amount a caller supplies
MaxNegative == 1   \* the smallest amount a caller supplies is -MaxNegative
MaxTotal == 3      \* calls that would raise the bank total above this are not made

Amounts == (0 - MaxNegative)..MaxAmount

\* The names callers supply: "", " ", "a", " a", "b"
Names == { <<>>, <<" ">>, <<"a">>, <<" ", "a">>, <<"b">> }

NoName == <<>>
NoAccount == [name |-> <<>>, balance |-> 0]

----------------------------------------------------------------------------
(* String.prototype.trim *)

IsWhiteSpace(c) == c = " "

RECURSIVE trimStart(_)
trimStart(s) ==
    IF Len(s) > 0 /\ IsWhiteSpace(Head(s)) THEN trimStart(Tail(s)) ELSE s

RECURSIVE trimEnd(_)
trimEnd(s) ==
    IF Len(s) > 0 /\ IsWhiteSpace(s[Len(s)])
    THEN trimEnd(SubSeq(s, 1, Len(s) - 1))
    ELSE s

trim(s) == trimEnd(trimStart(s))

----------------------------------------------------------------------------
(* Helpers of impl.ts *)

validateAmountAllowsZero(amount) ==
    IF amount < 0 THEN "InvalidAmount" ELSE "none"

\* validateAmount: the error it throws, "none" when it returns
validateAmount(amount) ==
    IF amount <= 0 THEN "InvalidAmount" ELSE "none"

BankDepositDropped(total, amount) == total

\* BankImpl.deposit: the new totalBalance
BankDeposit(total, amount) == total + amount

BankWithdrawDropped(total, amount) == total

\* BankImpl.withdraw: the new totalBalance
BankWithdraw(total, amount) == total - amount

\* BankImpl.getTotalBalance
getTotalBalance == totalBalance

\* ManagerImpl.getTotalBankBalance
getTotalBankBalance == getTotalBalance

\* AccountImpl.checkBalance of the account held under key k
checkBalance(k) == accounts[k].balance

\* BankImpl.getAccountByName: the error it throws, "none" when the account is found
getAccountByName(name) ==
    IF name \in DOMAIN accounts THEN "none" ELSE "MissingAccount"

InsufficientOffByOne(balance, amount) == balance + 1 < amount

\* the sufficiency test of AccountImpl.withdraw and AccountImpl.transfer
Insufficient(balance, amount) == balance < amount

\* AccountImpl.receiveTransfer: the new balance
receiveTransfer(balance, amount) == balance + amount

AccountImplUntrimmed(name, balance) ==
    IF validateAmount(balance) # "none"
    THEN [err |-> "InvalidAmount", account |-> NoAccount]
    ELSE IF Len(name) = 0
    THEN [err |-> "InvalidName", account |-> NoAccount]
    ELSE [err |-> "none", account |-> [name |-> name, balance |-> balance]]

\* AccountImpl constructor: the error it throws, or the account constructed
AccountImpl(name, balance) ==
    IF validateAmount(balance) # "none"
    THEN [err |-> "InvalidAmount", account |-> NoAccount]
    ELSE IF Len(name) = 0
    THEN [err |-> "InvalidName", account |-> NoAccount]
    ELSE [err |-> "none", account |-> [name |-> trim(name), balance |-> balance]]

----------------------------------------------------------------------------
(* Bookkeeping of the calls *)

Call(op, self, arg, amount, err, ret) ==
    [op |-> op, self |-> self, arg |-> arg, amount |-> amount, err |-> err, ret |-> ret]

Snapshot == [accounts |-> accounts, totalBalance |-> totalBalance]

\* the call throws err: nothing but the record of the call changes
Throws(op, self, arg, amount, err) ==
    /\ last' = Call(op, self, arg, amount, err, 0)
    /\ pre' = Snapshot
    /\ UNCHANGED <<accounts, totalBalance>>

Returns(op, self, arg, amount, ret) ==
    /\ last' = Call(op, self, arg, amount, "none", ret)
    /\ pre' = Snapshot

----------------------------------------------------------------------------
(* Initial state: createBank() *)

Init ==
    /\ accounts = << >>
    /\ totalBalance = 0
    /\ last = Call("createBank", NoName, NoName, 0, "none", 0)
    /\ pre = [accounts |-> << >>, totalBalance |-> 0]

----------------------------------------------------------------------------
(* Operations *)

createAccountOverwrites(name, balance) ==
    /\ balance <= 0 \/ totalBalance + balance <= MaxTotal
    /\ IF validateAmount(balance) # "none"
       THEN Throws("createAccount", NoName, name, balance, validateAmount(balance))
       ELSE LET made == AccountImpl(name, balance) IN
            IF made.err # "none"
            THEN Throws("createAccount", NoName, name, balance, made.err)
            ELSE /\ accounts' = [k \in DOMAIN accounts \cup {name} |->
                                    IF k = name THEN made.account ELSE accounts[k]]
                 /\ totalBalance' = totalBalance + balance
                 /\ Returns("createAccount", NoName, name, balance, 0)

\* BankImpl.createAccount(name, balance)
createAccount(name, balance) ==
    /\ balance <= 0 \/ totalBalance + balance <= MaxTotal
    /\ IF validateAmount(balance) # "none"
       THEN Throws("createAccount", NoName, name, balance, validateAmount(balance))
       ELSE IF name \in DOMAIN accounts
       THEN Throws("createAccount", NoName, name, balance, "NameAlreadyExists")
       ELSE LET made == AccountImpl(name, balance) IN
            IF made.err # "none"
            THEN Throws("createAccount", NoName, name, balance, made.err)
            ELSE /\ accounts' = [k \in DOMAIN accounts \cup {name} |->
                                    IF k = name THEN made.account ELSE accounts[k]]
                 /\ totalBalance' = totalBalance + balance
                 /\ Returns("createAccount", NoName, name, balance, 0)

\* AccountImpl.deposit(amount) on the account held under key k
deposit(k, amount) ==
    /\ k \in DOMAIN accounts
    /\ amount <= 0 \/ totalBalance + amount <= MaxTotal
    /\ IF validateAmount(amount) # "none"
       THEN Throws("deposit", k, NoName, amount, validateAmount(amount))
       ELSE /\ accounts' = [accounts EXCEPT ![k].balance = @ + amount]
            /\ totalBalance' = BankDeposit(totalBalance, amount)
            /\ Returns("deposit", k, NoName, amount, 0)

\* AccountImpl.withdraw(amount) on the account held under key k
withdraw(k, amount) ==
    /\ k \in DOMAIN accounts
    /\ IF validateAmount(amount) # "none"
       THEN Throws("withdraw", k, NoName, amount, validateAmount(amount))
       ELSE IF Insufficient(accounts[k].balance, amount)
       THEN Throws("withdraw", k, NoName, amount, "InsufficientBalance")
       ELSE /\ accounts' = [accounts EXCEPT ![k].balance = @ - amount]
            /\ totalBalance' = BankWithdraw(totalBalance, amount)
            /\ Returns("withdraw", k, NoName, amount, 0)

transferViaWithdraw(k, recipient, amount) ==
    /\ k \in DOMAIN accounts
    /\ IF validateAmount(amount) # "none"
       THEN Throws("transfer", k, recipient, amount, validateAmount(amount))
       ELSE IF Insufficient(accounts[k].balance, amount)
       THEN Throws("transfer", k, recipient, amount, "InsufficientBalance")
       ELSE IF accounts[k].name = recipient
       THEN /\ UNCHANGED <<accounts, totalBalance>>
            /\ Returns("transfer", k, recipient, amount, 0)
       ELSE LET debited == [accounts EXCEPT ![k].balance = @ - amount] IN
            IF getAccountByName(recipient) # "none"
            THEN /\ accounts' = debited
                 /\ totalBalance' = BankWithdraw(totalBalance, amount)
                 /\ last' = Call("transfer", k, recipient, amount,
                                 getAccountByName(recipient), 0)
                 /\ pre' = Snapshot
            ELSE /\ accounts' = [debited EXCEPT ![recipient].balance =
                                    receiveTransfer(@, amount)]
                 /\ totalBalance' = BankWithdraw(totalBalance, amount)
                 /\ Returns("transfer", k, recipient, amount, 0)

transferResolvesFirst(k, recipient, amount) ==
    /\ k \in DOMAIN accounts
    /\ IF validateAmount(amount) # "none"
       THEN Throws("transfer", k, recipient, amount, validateAmount(amount))
       ELSE IF accounts[k].name = recipient
       THEN IF Insufficient(accounts[k].balance, amount)
            THEN Throws("transfer", k, recipient, amount, "InsufficientBalance")
            ELSE /\ UNCHANGED <<accounts, totalBalance>>
                 /\ Returns("transfer", k, recipient, amount, 0)
       ELSE IF getAccountByName(recipient) # "none"
       THEN Throws("transfer", k, recipient, amount, getAccountByName(recipient))
       ELSE IF Insufficient(accounts[k].balance, amount)
       THEN Throws("transfer", k, recipient, amount, "InsufficientBalance")
       ELSE LET debited == [accounts EXCEPT ![k].balance = @ - amount] IN
            /\ accounts' = [debited EXCEPT ![recipient].balance =
                               receiveTransfer(@, amount)]
            /\ UNCHANGED totalBalance
            /\ Returns("transfer", k, recipient, amount, 0)

\* AccountImpl.transfer(recipient, amount) on the account held under key k
transfer(k, recipient, amount) ==
    /\ k \in DOMAIN accounts
    /\ IF validateAmount(amount) # "none"
       THEN Throws("transfer", k, recipient, amount, validateAmount(amount))
       ELSE IF Insufficient(accounts[k].balance, amount)
       THEN Throws("transfer", k, recipient, amount, "InsufficientBalance")
       ELSE IF accounts[k].name = recipient
       THEN /\ UNCHANGED <<accounts, totalBalance>>
            /\ Returns("transfer", k, recipient, amount, 0)
       ELSE IF getAccountByName(recipient) # "none"
       THEN Throws("transfer", k, recipient, amount, getAccountByName(recipient))
       ELSE LET debited == [accounts EXCEPT ![k].balance = @ - amount] IN
            /\ accounts' = [debited EXCEPT ![recipient].balance =
                               receiveTransfer(@, amount)]
            /\ UNCHANGED totalBalance
            /\ Returns("transfer", k, recipient, amount, 0)

\* AccountImpl.checkBalance() called on the account held under key k
callCheckBalance(k) ==
    /\ k \in DOMAIN accounts
    /\ UNCHANGED <<accounts, totalBalance>>
    /\ Returns("checkBalance", k, NoName, 0, checkBalance(k))

\* ManagerImpl.getTotalBankBalance() called
callGetTotalBankBalance ==
    /\ UNCHANGED <<accounts, totalBalance>>
    /\ Returns("getTotalBankBalance", NoName, NoName, 0, getTotalBankBalance)

Next ==
    \/ \E name \in Names, balance \in Amounts : createAccount(name, balance)
    \/ \E k \in Names, amount \in Amounts : deposit(k, amount)
    \/ \E k \in Names, amount \in Amounts : withdraw(k, amount)
    \/ \E k \in Names, recipient \in Names, amount \in Amounts : transfer(k, recipient, amount)
    \/ \E k \in Names : callCheckBalance(k)
    \/ callGetTotalBankBalance

Spec == Init /\ [][Next]_vars

----------------------------------------------------------------------------
(* The same operations over the values of the number type, non-finite ones  *)
(* included.  A number is a record: a finite integer v, NaN, or an infinity *)
(* of sign v.                                                              *)

Fin(n) == [kind |-> "finite", v |-> n]
NaN == [kind |-> "NaN", v |-> 0]
PosInfinity == [kind |-> "Infinity", v |-> 1]
NegInfinity == [kind |-> "Infinity", v |-> 0 - 1]

IsFinite(x) == x.kind = "finite"

\* x < y of the number type: false as soon as one side is NaN
NumLess(x, y) ==
    /\ x.kind # "NaN"
    /\ y.kind # "NaN"
    /\ IF IsFinite(x) /\ IsFinite(y) THEN x.v < y.v
       ELSE IF IsFinite(x) THEN y = PosInfinity
       ELSE IF IsFinite(y) THEN x = NegInfinity
       ELSE x = NegInfinity /\ y = PosInfinity

\* x <= y of the number type: false as soon as one side is NaN
NumLessEq(x, y) ==
    /\ x.kind # "NaN"
    /\ y.kind # "NaN"
    /\ (x = y \/ NumLess(x, y))

\* x + y of the number type
NumAdd(x, y) ==
    IF x.kind = "NaN" \/ y.kind = "NaN" THEN NaN
    ELSE IF IsFinite(x) /\ IsFinite(y) THEN Fin(x.v + y.v)
    ELSE IF IsFinite(x) THEN y
    ELSE IF IsFinite(y) THEN x
    ELSE IF x = y THEN x ELSE NaN

NumNegate(x) ==
    IF x.kind = "NaN" THEN NaN
    ELSE IF IsFinite(x) THEN Fin(0 - x.v)
    ELSE IF x = PosInfinity THEN NegInfinity ELSE PosInfinity

\* x - y of the number type
NumSub(x, y) == NumAdd(x, NumNegate(y))

\* the amounts callers supply, and the names they use, in this specification
NumberAmounts == {Fin(n) : n \in Amounts} \cup {NaN, PosInfinity, NegInfinity}
NumberNames == { <<"a">>, <<"b">> }

\* validateAmount over the number type
validateAmountNumber(amount) ==
    IF NumLessEq(amount, Fin(0)) THEN "InvalidAmount" ELSE "none"

\* AccountImpl constructor over the number type
AccountImplNumber(name, balance) ==
    IF validateAmountNumber(balance) # "none"
    THEN [err |-> "InvalidAmount", account |-> [name |-> <<>>, balance |-> Fin(0)]]
    ELSE IF Len(name) = 0
    THEN [err |-> "InvalidName", account |-> [name |-> <<>>, balance |-> Fin(0)]]
    ELSE [err |-> "none", account |-> [name |-> trim(name), balance |-> balance]]

\* finite values stay within the bound of the model
InRange(x) == IsFinite(x) => (0 - MaxTotal <= x.v /\ x.v <= MaxTotal)

StateInRange(accts, total) ==
    /\ InRange(total)
    /\ \A k \in DOMAIN accts : InRange(accts[k].balance)

ThrowsNumber(op, self, arg, amount, err) ==
    /\ last' = Call(op, self, arg, amount, err, Fin(0))
    /\ pre' = Snapshot
    /\ UNCHANGED <<accounts, totalBalance>>

ReturnsNumber(op, self, arg, amount) ==
    /\ last' = Call(op, self, arg, amount, "none", Fin(0))
    /\ pre' = Snapshot
    /\ StateInRange(accounts', totalBalance')

InitNumber ==
    /\ accounts = << >>
    /\ totalBalance = Fin(0)
    /\ last = Call("createBank", NoName, NoName, Fin(0), "none", Fin(0))
    /\ pre = [accounts |-> << >>, totalBalance |-> Fin(0)]

\* BankImpl.createAccount(name, balance) over the number type
createAccountNumber(name, balance) ==
    IF validateAmountNumber(balance) # "none"
    THEN ThrowsNumber("createAccount", NoName, name, balance, validateAmountNumber(balance))
    ELSE IF name \in DOMAIN accounts
    THEN ThrowsNumber("createAccount", NoName, name, balance, "NameAlreadyExists")
    ELSE LET made == AccountImplNumber(name, balance) IN
         IF made.err # "none"
         THEN ThrowsNumber("createAccount", NoName, name, balance, made.err)
         ELSE /\ accounts' = [k \in DOMAIN accounts \cup {name} |->
                                 IF k = name THEN made.account ELSE accounts[k]]
              /\ totalBalance' = NumAdd(totalBalance, balance)
              /\ ReturnsNumber("createAccount", NoName, name, balance)

\* AccountImpl.deposit(amount) over the number type
depositNumber(k, amount) ==
    /\ k \in DOMAIN accounts
    /\ IF validateAmountNumber(amount) # "none"
       THEN ThrowsNumber("deposit", k, NoName, amount, validateAmountNumber(amount))
       ELSE /\ accounts' = [accounts EXCEPT ![k].balance = NumAdd(@, amount)]
            /\ totalBalance' = NumAdd(totalBalance, amount)
            /\ ReturnsNumber("deposit", k, NoName, amount)

\* AccountImpl.withdraw(amount) over the number type
withdrawNumber(k, amount) ==
    /\ k \in DOMAIN accounts
    /\ IF validateAmountNumber(amount) # "none"
       THEN ThrowsNumber("withdraw", k, NoName, amount, validateAmountNumber(amount))
       ELSE IF NumLess(accounts[k].balance, amount)
       THEN ThrowsNumber("withdraw", k, NoName, amount, "InsufficientBalance")
       ELSE /\ accounts' = [accounts EXCEPT ![k].balance = NumSub(@, amount)]
            /\ totalBalance' = NumSub(totalBalance, amount)
            /\ ReturnsNumber("withdraw", k, NoName, amount)

\* AccountImpl.transfer(recipient, amount) over the number type
transferNumber(k, recipient, amount) ==
    /\ k \in DOMAIN accounts
    /\ IF validateAmountNumber(amount) # "none"
       THEN ThrowsNumber("transfer", k, recipient, amount, validateAmountNumber(amount))
       ELSE IF NumLess(accounts[k].balance, amount)
       THEN ThrowsNumber("transfer", k, recipient, amount, "InsufficientBalance")
       ELSE IF accounts[k].name = recipient
       THEN /\ UNCHANGED <<accounts, totalBalance>>
            /\ ReturnsNumber("transfer", k, recipient, amount)
       ELSE IF getAccountByName(recipient) # "none"
       THEN ThrowsNumber("transfer", k, recipient, amount, getAccountByName(recipient))
       ELSE LET debited == [accounts EXCEPT ![k].balance = NumSub(@, amount)] IN
            /\ accounts' = [debited EXCEPT ![recipient].balance = NumAdd(@, amount)]
            /\ UNCHANGED totalBalance
            /\ ReturnsNumber("transfer", k, recipient, amount)

NextNumber ==
    \/ \E name \in NumberNames, balance \in NumberAmounts : createAccountNumber(name, balance)
    \/ \E k \in NumberNames, amount \in NumberAmounts : depositNumber(k, amount)
    \/ \E k \in NumberNames, amount \in NumberAmounts : withdrawNumber(k, amount)
    \/ \E k \in NumberNames, recipient \in NumberNames, amount \in NumberAmounts :
          transferNumber(k, recipient, amount)

SpecNumber == InitNumber /\ [][NextNumber]_vars

----------------------------------------------------------------------------
(* Derived notions used by the properties *)

\* the sum of checkBalance over the accounts held under the given keys
RECURSIVE SumOfBalances(_)
SumOfBalances(keys) ==
    IF keys = {} THEN 0
    ELSE LET k == CHOOSE x \in keys : TRUE
         IN checkBalance(k) + SumOfBalances(keys \ {k})

Mutators == {"createAccount", "deposit", "withdraw", "transfer"}

Failed == last.op \in Mutators /\ last.err # "none"

Succeeded(op) == last.op = op /\ last.err = "none"

StateUnchanged == accounts = pre.accounts /\ totalBalance = pre.totalBalance

\* balance of the receiver of the last call, before and after the call
BalanceBefore == pre.accounts[last.self].balance
BalanceAfter == accounts[last.self].balance

\* the last call was a transfer whose recipient name is a key of the registry
\* that holds an account other than the sender
TransferToOther ==
    /\ last.op = "transfer"
    /\ last.arg \in DOMAIN pre.accounts
    /\ last.arg # last.self

TypeOK ==
    /\ DOMAIN accounts \subseteq Names
    /\ \A k \in DOMAIN accounts : accounts[k].balance \in Int
    /\ totalBalance \in Int

----------------------------------------------------------------------------
(* Properties *)

\* C1, for finite amounts (Spec): in every reachable state the value returned
\* by getTotalBankBalance equals the sum of checkBalance over all accounts
\* created in the bank.
C1_TotalIsSumOfBalances ==
    getTotalBankBalance = SumOfBalances(DOMAIN accounts)

\* C1 witness: several accounts hold money after both failed and successful calls
C1_Witness ==
    /\ Cardinality(DOMAIN accounts) >= 2
    /\ Succeeded("transfer")
    /\ last.arg # last.self
    /\ getTotalBankBalance >= 2

\* C2: every account's balance is >= 0 in every reachable state.
C2_BalancesNonNegative ==
    \A k \in DOMAIN accounts : checkBalance(k) >= 0

\* C2 witness: a withdrawal or transfer was refused for lack of funds
C2_Witness ==
    /\ last.op \in {"withdraw", "transfer"}
    /\ last.err = "InsufficientBalance"
    /\ last.amount = BalanceBefore + 1

\* C3: a call of createAccount, deposit, withdraw or transfer that fails with
\* an error leaves the registry, every balance and the total as they were.
C3_FailureChangesNothing ==
    Failed => StateUnchanged

\* C3 witness: a transfer with a valid, covered amount failed on its recipient
C3_Witness ==
    /\ last.op = "transfer"
    /\ last.err = "MissingAccount"
    /\ BalanceBefore >= last.amount

\* C4: createAccount with a valid balance fails with NameAlreadyExists whenever
\* the trimmed name equals the name of an existing account, and changes nothing.
C4_TrimmedDuplicateRejected ==
    ( /\ last.op = "createAccount"
      /\ last.amount > 0
      /\ \E k \in DOMAIN pre.accounts : pre.accounts[k].name = trim(last.arg) )
    => (last.err = "NameAlreadyExists" /\ StateUnchanged)

\* C5: createAccount with a valid balance fails with InvalidName whenever the
\* name is empty after trimming, so no account ever has an empty name.
C5_BlankNameRejected ==
    /\ ( /\ last.op = "createAccount"
         /\ last.amount > 0
         /\ trim(last.arg) = <<>> )
       => last.err = "InvalidName"
    /\ \A k \in DOMAIN accounts : accounts[k].name # <<>>

\* C6: for every amount <= 0, deposit, withdraw, transfer and createAccount
\* fail with InvalidAmount, whatever the balance and the name supplied.
C6_NonPositiveAmountRejected ==
    (last.op \in Mutators /\ last.amount <= 0) => last.err = "InvalidAmount"

\* C6 witness: a non-positive opening balance was refused for a name already taken
C6_Witness ==
    /\ last.op = "createAccount"
    /\ last.amount <= 0
    /\ last.arg \in DOMAIN accounts
    /\ last.err = "InvalidAmount"

\* C7: when transfer returns without error and the recipient name resolves
\* through the registry to an account other than the sender, the sender lost
\* exactly the amount and the recipient gained exactly the amount.
C7_TransferMovesAmount ==
    (TransferToOther /\ last.err = "none")
    => /\ BalanceAfter = BalanceBefore - last.amount
       /\ accounts[last.arg].balance = pre.accounts[last.arg].balance + last.amount

\* C8: no call of transfer, successful or failing, changes the value returned
\* by getTotalBankBalance.
C8_TransferNeutrality ==
    last.op = "transfer" => getTotalBankBalance = pre.totalBalance

\* C8 witness: money moved between two accounts
C8_Witness ==
    /\ TransferToOther
    /\ last.err = "none"
    /\ BalanceAfter = BalanceBefore - last.amount
    /\ last.amount > 0

\* C9: a transfer whose recipient name is the account's own name, as trimmed
\* at creation, with 0 < amount <= balance raises no error and changes no
\* balance and not the total; with amount > balance it fails with
\* InsufficientBalance.
C9_SelfTransferIsNoOp ==
    ( /\ last.op = "transfer"
      /\ last.arg = trim(last.self)
      /\ last.amount > 0 )
    => IF last.amount <= BalanceBefore
       THEN last.err = "none" /\ StateUnchanged
       ELSE last.err = "InsufficientBalance"

\* C9 witness: an account created with surrounding whitespace transferred to
\* its own trimmed name
C9_Witness ==
    /\ Succeeded("transfer")
    /\ last.arg = trim(last.self)
    /\ last.arg # last.self
    /\ last.amount <= BalanceBefore

\* C10: withdraw, and transfer to an existing account other than the sender,
\* succeed when the (valid) amount equals the balance and leave the balance
\* at 0; with an amount greater than the balance they fail with
\* InsufficientBalance.
C10_SufficiencyBoundary ==
    ( /\ last.op = "withdraw" \/ TransferToOther
      /\ last.amount > 0 )
    => /\ last.amount = BalanceBefore => (last.err = "none" /\ BalanceAfter = 0)
       /\ last.amount > BalanceBefore => last.err = "InsufficientBalance"

\* the accounts other than those held under the given keys are as they were
OthersUnchanged(keys) ==
    \A k \in DOMAIN pre.accounts \ keys : accounts[k] = pre.accounts[k]

\* C11: a transfer with 0 < amount <= balance whose recipient name is neither
\* the sender's name nor the name of any account of the bank fails with
\* MissingAccount and leaves the sender's balance untouched.  (Stated for
\* recipient names that are not blank, the case that does not involve
\* accounts with an empty name.)
C11_UnknownRecipientRejected ==
    ( /\ last.op = "transfer"
      /\ last.amount > 0
      /\ last.amount <= BalanceBefore
      /\ trim(last.arg) # <<>>
      /\ \A k \in DOMAIN pre.accounts : pre.accounts[k].name # last.arg )
    => (last.err = "MissingAccount" /\ BalanceAfter = BalanceBefore)

\* C12: a bank starts with total 0, and a successful createAccount returns an
\* account whose balance is the opening balance, raises the total by exactly
\* that balance and leaves the balances of the earlier accounts unchanged.
C12_CreateAccountEffect ==
    /\ last.op = "createBank" => getTotalBankBalance = 0
    /\ Succeeded("createAccount") =>
          /\ last.arg \in DOMAIN accounts
          /\ checkBalance(last.arg) = last.amount
          /\ getTotalBankBalance = pre.totalBalance + last.amount
          /\ \A k \in DOMAIN pre.accounts :
                checkBalance(k) = pre.accounts[k].balance

\* C12 witness: an account was opened in a bank that already held another one
C12_Witness ==
    /\ Succeeded("createAccount")
    /\ DOMAIN pre.accounts # {}
    /\ pre.totalBalance > 0

\* C13: an account created under a name is registered under the trimmed name:
\* a later transfer to the trimmed name from another account, with
\* 0 < amount <= balance, credits it and does not fail with MissingAccount.
\* (Stated for accounts whose trimmed name is not empty.)
C13_RegisteredUnderTrimmedName ==
    \A k \in DOMAIN pre.accounts :
        ( /\ last.op = "transfer"
          /\ k # last.self
          /\ pre.accounts[last.self].name # last.arg
          /\ trim(k) = last.arg
          /\ trim(k) # <<>>
          /\ last.amount > 0
          /\ last.amount <= BalanceBefore )
        => /\ last.err = "none"
           /\ accounts[k].balance = pre.accounts[k].balance + last.amount

\* C14: deposit with an amount > 0 never fails and raises the balance of the
\* account and the bank total by exactly the amount.
C14_DepositEffect ==
    (last.op = "deposit" /\ last.amount > 0)
    => /\ last.err = "none"
       /\ BalanceAfter = BalanceBefore + last.amount
       /\ getTotalBankBalance = pre.totalBalance + last.amount

\* C14 witness: a second deposit in a row into an account
C14_Witness ==
    /\ Succeeded("deposit")
    /\ last.amount > 0
    /\ BalanceBefore >= 2

\* C15: withdraw with 0 < amount <= balance succeeds and lowers the balance of
\* the account and the bank total by exactly the amount.
C15_WithdrawEffect ==
    (last.op = "withdraw" /\ last.amount > 0 /\ last.amount <= BalanceBefore)
    => /\ last.err = "none"
       /\ BalanceAfter = BalanceBefore - last.amount
       /\ getTotalBankBalance = pre.totalBalance - last.amount

\* C15 witness: a withdrawal that leaves funds in the account and in the bank
C15_Witness ==
    /\ Succeeded("withdraw")
    /\ BalanceAfter > 0
    /\ getTotalBankBalance > BalanceAfter

\* C16: no two distinct accounts of the bank hold the same (trimmed) name.
C16_NamesUnique ==
    \A k1, k2 \in DOMAIN accounts :
        k1 # k2 => accounts[k1].name # accounts[k2].name

C19_TotalNonNegative ==
    getTotalBankBalance >= 0

\* C19 witness: withdrawals brought the total of a bank with accounts back to 0
C19_Witness ==
    /\ Succeeded("withdraw")
    /\ getTotalBankBalance = 0
    /\ pre.totalBalance > 0

\* C20: deposit and withdraw change no other account; transfer changes at most
\* the sender and the resolved recipient; checkBalance and getTotalBankBalance
\* change nothing; no call removes an account or changes an account's name.
C20_Frame ==
    /\ last.op \in {"deposit", "withdraw"} => OthersUnchanged({last.self})
    /\ last.op = "transfer" => OthersUnchanged({last.self, last.arg})
    /\ last.op \in {"checkBalance", "getTotalBankBalance"} => StateUnchanged
    /\ last.op = "createAccount" => OthersUnchanged({})
    /\ \A k \in DOMAIN pre.accounts :
          k \in DOMAIN accounts /\ accounts[k].name = pre.accounts[k].name

\* C20 witness: a transfer between two accounts of a bank that holds a third
C20_Witness ==
    /\ TransferToOther
    /\ last.err = "none"
    /\ Cardinality(DOMAIN accounts) >= 3

\* C18: the amount validation of deposit, withdraw, transfer and createAccount
\* accepts an amount only if it is > 0 and rejects NaN, +Infinity and
\* -Infinity with InvalidAmount, so no balance and no total is ever a
\* non-finite value.  (Stated over the number type, under SpecNumber.)
C18_NonFiniteRejected ==
    /\ ( /\ last.op \in Mutators
         /\ ~(IsFinite(last.amount) /\ last.amount.v > 0) )
       => last.err = "InvalidAmount"
    /\ IsFinite(totalBalance)
    /\ \A k \in DOMAIN accounts : IsFinite(accounts[k].balance)

\* the sum of the balances over the number type
RECURSIVE NumSumOfBalances(_)
NumSumOfBalances(keys) ==
    IF keys = {} THEN Fin(0)
    ELSE LET k == CHOOSE x \in keys : TRUE
         IN NumAdd(accounts[k].balance, NumSumOfBalances(keys \ {k}))

\* C1, over the number type (SpecNumber): the total equals the sum of the
\* balances of all accounts after any sequence of calls, whatever amounts the
\* calls are given.
C1_TotalIsSumOverNumbers ==
    totalBalance = NumSumOfBalances(DOMAIN accounts)

\* C19, over the number type (SpecNumber): the bank's total balance never
\* falls below 0, whatever amounts the calls are given.
C19_TotalNeverNegativeOverNumbers ==
    ~NumLess(totalBalance, Fin(0))

====
